---- MODULE Spec2Model ----
(***************************************************************************)
(* RoboSpec: structural validation, deterministic normalization and the    *)
(* bounded self-repair loop.                                               *)
(*                                                                         *)
(* An artifact (the generated env_cfg source text) is a sequence of        *)
(* statements.  Every statement is a record [k, a, b] that stands for one  *)
(* concrete piece of Python source; Text features of a statement are what  *)
(* the textual checks (substring tests, regular expressions) see, Nodes    *)
(* are what ast.parse makes of it.                                         *)
(***************************************************************************)
EXTENDS Integers, Sequences, FiniteSets, TLC

VARIABLES
    api_dir,    \* knowledge/api_reference: "present" (with its documents),
                \* "empty" (no *.md file) or "absent"
    wl_cache,   \* lru_cache of load_api_whitelist: [loaded, symbols]
    \* a call of validate_config / check_api_symbols on its own
    vcode,      \* the text handed to validate_config
    vpc,        \* "idle" | "returned" | "raised": the validate_config call
    vresult,    \* the ValidationResult returned by validate_config
    sym_pc,     \* "idle" | "returned": position of the check_api_symbols call
    sym_wl,     \* the whitelist argument of check_api_symbols
    sym_errors, \* the list returned by check_api_symbols
    \* one run of _run_pipeline (CLI) / run_pipeline (Streamlit)
    frontend,   \* "cli" | "ui"
    category,   \* task_spec.category.value
    pc,         \* the await the run is suspended at, "done", "failed" (a
                \* collaborator raised) or "crashed" (validate_config raised)
    env_cfg,    \* config.env_cfg
    best_code,  \* best_code
    result,     \* result, the verdict of the last validate_config
    attempt,    \* iterations of the repair loop completed
    request,    \* arguments of the last repair_config call
    requests,   \* number of repair_config calls made
    stages,     \* what the text of the last validation went through
    verdicts,   \* is_valid of every validation of this run, in order
    outcome,    \* "none" | "Accepted" | "BestEffort": how the loop ended
    reported,   \* errors shown as final (CLI) / stored as validation (UI)
    output,     \* the env_cfg file written / the config stored
    client_closed,
    \* load_api_whitelist called from several threads of one process
    calls,      \* per caller: [pc, computed, ret, n]
    wl_returned, \* every set a call of load_api_whitelist has returned
    \* a call of auto_correct_code, and a second one on its output
    ac_in,      \* the text handed to auto_correct_code
    ac_pc,      \* "idle" | "once" | "twice"
    ac_out,     \* (corrected, corrections) of the first call
    ac_again,   \* (corrected, corrections) of the call on ac_out's text
    \* a call of post_process_env_cfg, and a second one on its output
    pp_in,      \* the text handed to post_process_env_cfg
    pp_cat,     \* the category argument
    pp_pc,      \* "idle" | "once" | "twice"
    pp_out,     \* (fixed_code, fixes) of the first call
    pp_again,   \* (fixed_code, fixes) of the call on pp_out's text
    \* validate_config called again and again in one process
    vlog,       \* every call so far: [code, outcome, is_valid, e, w], with
                \* e and w the list objects the verdict's fields refer to
    vheap,      \* the list objects created so far, by reference
    \* one NemotronClient and its calls of generate
    nim_key,    \* is NVIDIA_API_KEY set
    or_key,     \* is OPENROUTER_API_KEY set
    cl_pc,      \* "idle" | "nim_wait" | "or_wait": the await generate is at
    cl_tried,   \* providers posted to by the call under way, in order
    cl_results  \* the calls of generate completed: [tried, outcome]

shared == <<api_dir, wl_cache>>
vvars == <<vcode, vpc, vresult, sym_pc, sym_wl, sym_errors>>
ovars == <<frontend, category, pc, env_cfg, best_code, result, attempt, request,
           requests, stages, verdicts, outcome, reported, output, client_closed>>
rvars == <<calls, wl_returned>>
avars == <<ac_in, ac_pc, ac_out, ac_again>>
pvars == <<pp_in, pp_cat, pp_pc, pp_out, pp_again>>
dvars == <<vlog, vheap>>
nvars == <<nim_key, or_key, cl_pc, cl_tried, cl_results>>
xvars == <<dvars, nvars>>
tvars == <<rvars, avars, pvars, xvars>>
vars == <<shared, vvars, ovars, tvars>>

(***************************************************************************)
(* Text layer.  TLA+ strings are atomic, so an identifier or dotted module *)
(* name is given with the fragments the code's substring tests look for.   *)
(***************************************************************************)
Parts(s) ==
    CASE s = "CartpoleEnvCfg"  -> <<"Cartpole", "EnvCfg">>
      [] s = "InnerEnvCfg"     -> <<"Inner", "EnvCfg">>
      [] s = "LocalRewardsCfg" -> <<"Local", "RewardsCfg">>
      [] s = "isaaclab.envs"   -> <<"isaaclab", ".envs">>
      [] s = "isaaclab.envs.mdp" -> <<"isaaclab", ".envs", ".mdp">>
      [] s = "isaaclab_assets.robots.cartpole" ->
             <<"isaaclab", "_assets", ".robots.cartpole">>
      [] s = "isaaclab_assets.robots.franka" ->
             <<"isaaclab", "_assets", ".robots.franka">>
      [] s = "isaaclab_assets.robots.anymal" ->
             <<"isaaclab", "_assets", ".robots.anymal">>
      [] s = "my_mdp" -> <<"my_", "mdp">>
      [] s = "track_lin_vel_xy_exp" -> <<"track_lin_vel_xy", "_exp">>
      [] s = "track_ang_vel_z_exp"  -> <<"track_ang_vel_z", "_exp">>
      [] s = "position_error_tanh"  -> <<"position_error", "_tanh">>
      [] s = "joint_pos_l2_scaled"  -> <<"joint_pos_l2", "_scaled">>
      [] s = "action_rate_l1_norm"  -> <<"action_rate_l1", "_norm">>
      [] s = "isaaclab_tasks.manager_based.classic.cartpole.mdp" ->
             <<"isaaclab", "_tasks", ".manager_based.", "classic.cartpole", ".mdp">>
      [] s = "omni.isaac.lab.envs" -> <<"omni.isaac", ".lab.envs">>
      [] OTHER -> <<s>>

\* Python's `frag in s` for the fragments above.
InStr(frag, s) == \E i \in DOMAIN Parts(s) : Parts(s)[i] = frag

Range(f) == {f[i] : i \in DOMAIN f}

RECURSIVE Flatten(_)
Flatten(ss) == IF ss = <<>> THEN <<>> ELSE Head(ss) \o Flatten(Tail(ss))

(***************************************************************************)
(* Statements.                                                             *)
(*   import  a=module b=alias   import <a> as <b>      (b = "": no alias)  *)
(*   from    a=module b=name    from <a> import <b>                        *)
(*   class   a=name   b=where   where = top:      class <a>: pass          *)
(*                                      hook:     class <a>:               *)
(*                                                    def __post_init__..  *)
(*                                      in_class: class Holder:            *)
(*                                                    class <a>: pass      *)
(*                                      in_def:   def helper():            *)
(*                                                    class <a>: pass      *)
(*   def     a=name             def <a>(self): pass                        *)
(*   access  a=attr   b=base    x = <b>.<a>                                *)
(*   weight  a=value  b=where   top:  t = RewTerm(weight=<a>)              *)
(*                              in_class: class Terms:                     *)
(*                                            t = RewTerm(weight=<a>)      *)
(*                              <a> is a number, -<number>, a name, or     *)
(*                              -"high": minus applied to a str constant   *)
(*   strlit  a=quote            usd = "ISAACLAB_NUCLEUS_DIR/Robots/c.usd"  *)
(*                              (dq), the same with ' (sq), or             *)
(*                              f"{ISAACLAB_NUCLEUS_DIR}/Robots/c.usd" (var)*)
(*   comment a=quote            # was "ISAACLAB_NUCLEUS_DIR/Robots/c.usd"  *)
(*   broken                     class MyEnvCfg(ManagerBasedRLEnvCfg:       *)
(*   robot   a=form   b=cfg     class SceneCfg:                            *)
(*                                  robot = ArticulationCfg(               *)
(*                                      usd="ISAACLAB_NUCLEUS_DIR/c.usd",  *)
(*                                  )                            (inline)  *)
(*                                  robot: ArticulationCfg = MISSING       *)
(*                                                              (missing)  *)
(*                                  robot: ArticulationCfg = <b>.replace(  *)
(*                                      prim_path="{ENV_REGEX_NS}/Robot")  *)
(*                                                              (replace)  *)
(*                                  robot = ArticulationCfg(               *)
(*                                      spawn=<b>.spawn,                   *)
(*                                      init_state=<b>.init_state.replace( *)
(*                                          pos=(0, 0, 2)),                *)
(*                                  )                           (derived)  *)
(***************************************************************************)
St(k, a, b) == [k |-> k, a |-> a, b |-> b]

\* number of source lines of a statement
Lines(s) ==
    CASE s.k = "class" /\ s.b \in {"hook", "in_class", "in_def"} -> 3
      [] s.k = "class" -> 2
      [] s.k = "weight" /\ s.b = "in_class" -> 2
      [] s.k = "robot" /\ s.a = "inline" -> 4
      [] s.k = "robot" /\ s.a = "derived" -> 6
      [] s.k = "robot" -> 2
      [] OTHER -> 1

\* The notable substrings of a statement's text.
DQ_NUCLEUS == "\"ISAACLAB_NUCLEUS_DIR/"
SQ_NUCLEUS == "'ISAACLAB_NUCLEUS_DIR/"
TASK_MDP_IMPORT == "import isaaclab_tasks.manager_based.*.mdp as mdp"
CORE_MDP_IMPORT == "import isaaclab.envs.mdp as mdp"

Text(s) ==
    CASE s.k \in {"strlit", "comment"} /\ s.a = "dq" -> {DQ_NUCLEUS}
      [] s.k \in {"strlit", "comment"} /\ s.a = "sq" -> {SQ_NUCLEUS}
      [] s.k = "import" /\ s.b = "mdp"
           /\ Parts(s.a)[1] = "isaaclab" /\ Len(Parts(s.a)) >= 5
           /\ Parts(s.a)[2] = "_tasks" /\ Parts(s.a)[3] = ".manager_based."
           /\ Parts(s.a)[Len(Parts(s.a))] = ".mdp" -> {TASK_MDP_IMPORT}
      [] s.k = "import" /\ s.a = "isaaclab.envs.mdp" /\ s.b = "mdp" -> {CORE_MDP_IMPORT}
      [] s.k = "from" /\ InStr("_assets", s.a) -> {s.b}
      [] s.k = "robot" /\ s.a = "inline"  -> {DQ_NUCLEUS}
      [] s.k = "robot" /\ s.a = "replace" -> {s.b, ".replace("}
      [] s.k = "robot" /\ s.a = "derived" -> {s.b, ".replace("}
      [] OTHER -> {}

\* The notable substrings of the line a robot assignment starts on.
FirstLine(s) ==
    IF s.k = "robot" /\ s.a = "replace" THEN {s.b, ".replace("} ELSE {}

\* `needle in code`
InCode(needle, code) == \E i \in DOMAIN code : needle \in Text(code[i])

(***************************************************************************)
(* ast.parse.  A node is [t, name, aux, num, depth]; depth is the distance *)
(* from the Module node.  Nodes(s) lists the nodes of one statement that   *)
(* the checks look at, in document order.                                  *)
(***************************************************************************)
Node(t, name, aux, num, depth) ==
    [t |-> t, name |-> name, aux |-> aux, num |-> num, depth |-> depth]

\* numeric constants are kept in tenths: 50.0 is 500
WeightNodes(v, d) ==
    CASE v = "1.0"  -> <<Node("keyword", "weight", "Constant", 10, d)>>
      [] v = "50.0" -> <<Node("keyword", "weight", "Constant", 500, d)>>
      [] v = "-50"  -> <<Node("keyword", "weight", "USub", 500, d)>>
      [] v = "-0.5" -> <<Node("keyword", "weight", "USub", 5, d)>>
      [] v = "-'high'" -> <<Node("keyword", "weight", "USubStr", 0, d)>>
      [] OTHER      -> <<Node("keyword", "weight", "Name", 0, d)>>

Nodes(s) ==
    CASE s.k = "import" -> <<Node("Import", s.a, "", 0, 1)>>
      [] s.k = "from"   -> <<Node("ImportFrom", s.a, "", 0, 1)>>
      [] s.k = "class" /\ s.b = "top"  -> <<Node("ClassDef", s.a, "", 0, 1)>>
      [] s.k = "class" /\ s.b = "hook" ->
             <<Node("ClassDef", s.a, "", 0, 1),
               Node("FunctionDef", "__post_init__", "", 0, 2)>>
      [] s.k = "class" /\ s.b = "in_class" ->
             <<Node("ClassDef", "Holder", "", 0, 1),
               Node("ClassDef", s.a, "", 0, 2)>>
      [] s.k = "class" /\ s.b = "in_def" ->
             <<Node("FunctionDef", "helper", "", 0, 1),
               Node("ClassDef", s.a, "", 0, 2)>>
      [] s.k = "def"    -> <<Node("FunctionDef", s.a, "", 0, 1)>>
      [] s.k = "access" -> <<Node("Attribute", s.a, s.b, 0, 2)>>
      [] s.k = "weight" /\ s.b = "top" -> WeightNodes(s.a, 3)
      [] s.k = "weight" /\ s.b = "in_class" ->
             <<Node("ClassDef", "Terms", "", 0, 1)>> \o WeightNodes(s.a, 4)
      [] s.k = "robot" -> <<Node("ClassDef", "SceneCfg", "", 0, 1)>>
      [] OTHER -> <<>>

MaxDepth == 4

RECURSIVE AtDepth(_, _)
AtDepth(ns, d) ==
    IF ns = <<>> THEN <<>>
    ELSE (IF Head(ns).depth = d THEN <<Head(ns)>> ELSE <<>>) \o AtDepth(Tail(ns), d)

\* ast.walk: breadth first, so by depth and within a depth in document order
RECURSIVE WalkFrom(_, _)
WalkFrom(ns, d) ==
    IF d > MaxDepth THEN <<>> ELSE AtDepth(ns, d) \o WalkFrom(ns, d + 1)

ast_walk(code) == WalkFrom(Flatten([i \in DOMAIN code |-> Nodes(code[i])]), 1)

RECURSIVE FirstBroken(_, _, _)
FirstBroken(code, i, line) ==
    IF i > Len(code) THEN 0
    ELSE IF code[i].k = "broken" THEN line
    ELSE FirstBroken(code, i + 1, line + Lines(code[i]))

\* ast.parse: [ok, lineno]; lineno is the line of the SyntaxError
ast_parse(code) ==
    LET l == FirstBroken(code, 1, 1)
    IN  [ok |-> l = 0, lineno |-> l]

(***************************************************************************)
(* API surface registry.                                                   *)
(***************************************************************************)
SUPPLEMENTAL_WHITELIST ==
    {"position_command_error", "position_command_error_tanh",
     "orientation_command_error", "joint_pos_target_l2", "feet_air_time",
     "UniformVelocityCommandCfg", "UniformPoseCommandCfg", "NullCommandCfg",
     "randomize_rigid_body_material", "randomize_rigid_body_mass",
     "modify_reward_weight", "terrain_levels_vel"}

\* names under "### mdp.<name>" / "### <Name>" headings of the reference
\* documents: those the tests require to be present, and the replacement
\* names of the correction table that are not in the supplemental set
DocSymbols ==
    {"is_alive", "lin_vel_z_l2", "is_terminated", "action_rate_l2",
     "joint_deviation_l1", "joint_vel_l2", "track_lin_vel_xy_exp",
     "track_ang_vel_z_exp", "ang_vel_xy_l2"}

\* the body of load_api_whitelist, run on a cache miss
scan_api_reference_docs_only(dir) ==
    IF dir = "present" THEN DocSymbols ELSE {}

scan_api_reference(dir) ==
    IF dir = "absent" THEN {}
    ELSE (IF dir = "present" THEN DocSymbols ELSE {}) \cup SUPPLEMENTAL_WHITELIST

\* symbols.update(SUPPLEMENTAL_WHITELIST) done on the cached set at every call
load_api_whitelist_update_on_hit(cache, dir) ==
    IF cache.loaded
    THEN [symbols |-> cache.symbols \cup SUPPLEMENTAL_WHITELIST,
          cache   |-> [loaded |-> TRUE,
                       symbols |-> cache.symbols \cup SUPPLEMENTAL_WHITELIST]]
    ELSE [symbols |-> scan_api_reference(dir),
          cache   |-> [loaded |-> TRUE, symbols |-> scan_api_reference(dir)]]

\* load_api_whitelist under lru_cache(maxsize=1): [symbols, cache]
load_api_whitelist(cache, dir) ==
    IF cache.loaded
    THEN [symbols |-> cache.symbols, cache |-> cache]
    ELSE [symbols |-> scan_api_reference(dir),
          cache   |-> [loaded |-> TRUE, symbols |-> scan_api_reference(dir)]]

\* difflib.SequenceMatcher(None, a, b).ratio() in percent, for the names of
\* the model; every other pair is below the cutoff
Ratio(a, b) ==
    CASE a = "action_rate_l3" /\ b = "action_rate_l2"    -> 92
      [] a = "joint_pos_l2" /\ b = "joint_pos_target_l2" -> 77
      [] OTHER -> 0

CUTOFF == 60

\* difflib.get_close_matches(name, whitelist, n=1, cutoff=0.6): "" for []
get_close_match(name, whitelist) ==
    LET close == {m \in whitelist : Ratio(name, m) >= CUTOFF}
    IN  IF close = {} THEN ""
        ELSE CHOOSE m \in close : \A o \in close : Ratio(name, o) <= Ratio(name, m)

(***************************************************************************)
(* Errors and warnings are the message strings of the code, kept as        *)
(* records: kind is the fixed part of the message, name/hint/line the      *)
(* interpolated parts.                                                     *)
(***************************************************************************)
Err(kind, name, hint, line) ==
    [kind |-> kind, name |-> name, hint |-> hint, line |-> line]

Warn(kind, value) == [kind |-> kind, value |-> value]

\* check_api_symbols without the `seen` set
RECURSIVE api_walk_no_seen(_, _, _, _)
api_walk_no_seen(ns, whitelist, unknown, seen) ==
    IF ns = <<>> THEN unknown
    ELSE LET node == Head(ns)
         IN  IF node.t = "Attribute" /\ node.aux = "mdp" /\ node.name \notin whitelist
             THEN api_walk_no_seen(Tail(ns), whitelist,
                      Append(unknown,
                             Err("Unknown MDP function", node.name,
                                 get_close_match(node.name, whitelist), 0)),
                      seen)
             ELSE api_walk_no_seen(Tail(ns), whitelist, unknown, seen)

\* the loop of check_api_symbols over ast.walk(tree): [unknown, seen]
RECURSIVE api_walk(_, _, _, _)
api_walk(ns, whitelist, unknown, seen) ==
    IF ns = <<>> THEN unknown
    ELSE LET node == Head(ns)
         IN  IF node.t = "Attribute" /\ node.aux = "mdp" /\ node.name \notin seen
             THEN api_walk(Tail(ns), whitelist,
                      IF node.name \notin whitelist
                      THEN Append(unknown,
                               Err("Unknown MDP function", node.name,
                                   get_close_match(node.name, whitelist), 0))
                      ELSE unknown,
                      seen \cup {node.name})
             ELSE api_walk(Tail(ns), whitelist, unknown, seen)

check_api_symbols(code, whitelist) ==
    IF ~ast_parse(code).ok THEN <<>>
    ELSE api_walk(ast_walk(code), whitelist, <<>>, {})

\* only the module-level definitions
RECURSIVE NamesOf_top_level(_, _)
NamesOf_top_level(ns, t) ==
    IF ns = <<>> THEN <<>>
    ELSE (IF Head(ns).t = t /\ Head(ns).depth = 1 THEN <<Head(ns).name>> ELSE <<>>)
         \o NamesOf_top_level(Tail(ns), t)

RECURSIVE NamesOf(_, _)
NamesOf(ns, t) ==
    IF ns = <<>> THEN <<>>
    ELSE (IF Head(ns).t = t THEN <<Head(ns).name>> ELSE <<>>) \o NamesOf(Tail(ns), t)

\* the "unusually large reward weight" loop of validate_config
WEIGHT_LIMIT == 100

RECURSIVE weight_walk(_)
weight_walk(ns) ==
    IF ns = <<>> THEN <<>>
    ELSE LET node == Head(ns)
             big  == node.t = "keyword" /\ node.name = "weight"
                     /\ node.aux \in {"Constant", "USub"}
                     /\ node.num > WEIGHT_LIMIT
             text == IF node.aux = "USub" THEN "-" ELSE ""
         IN  (IF big THEN <<Warn("Unusually large reward weight",
                                 <<text, node.num>>)>>
              ELSE <<>>) \o weight_walk(Tail(ns))

\* abs(node.value.operand.value) in the same loop: the operand of the minus
\* is any Constant, and abs of a str (or None, bytes) raises TypeError
weight_loop_raises(ns) ==
    \E i \in DOMAIN ns :
        /\ ns[i].t = "keyword" /\ ns[i].name = "weight"
        /\ ns[i].aux = "USubStr"

\* ValidationResult()
NewResult == [is_valid |-> TRUE, errors |-> <<>>, warnings |-> <<>>]

\* one `result.is_valid = False; result.errors.append(...)` / extend
Fail(res, errs) ==
    [res EXCEPT !.is_valid = FALSE, !.errors = res.errors \o errs]

\* the except branch without its `return`: the textual check 8 still runs
on_syntax_error_continue(code) ==
    LET r == Fail(NewResult, <<Err("SyntaxError", "", "", ast_parse(code).lineno)>>)
    IN  IF InCode(TASK_MDP_IMPORT, code)
        THEN [r EXCEPT !.warnings =
                 Append(r.warnings, Warn("Task-specific mdp import found", <<>>))]
        ELSE r

\* lines 171-177: the except SyntaxError branch
on_syntax_error(code) ==
    Fail(NewResult, <<Err("SyntaxError", "", "", ast_parse(code).lineno)>>)

\* 2. Class Check
check_env_cfg(res, class_names) ==
    LET has_env_cfg == \E i \in DOMAIN class_names : InStr("EnvCfg", class_names[i])
    IN  IF ~has_env_cfg
        THEN Fail(res, <<Err("Missing environment config class", "EnvCfg", "", 0)>>)
        ELSE res

\* 3. Reward Check
check_rewards_cfg(res, class_names) ==
    LET has_rewards_cfg == \E i \in DOMAIN class_names : InStr("RewardsCfg", class_names[i])
    IN  IF ~has_rewards_cfg
        THEN Fail(res, <<Err("Missing rewards config", "RewardsCfg", "", 0)>>)
        ELSE res

\* has_post_init = bool(method_names)
check_post_init_any_def(res, method_names) ==
    IF method_names = <<>>
    THEN Fail(res, <<Err("Missing __post_init__ method", "__post_init__", "", 0)>>)
    ELSE res

\* 4. Post-init Check
check_post_init(res, method_names) ==
    LET has_post_init == \E i \in DOMAIN method_names : method_names[i] = "__post_init__"
    IN  IF ~has_post_init
        THEN Fail(res, <<Err("Missing __post_init__ method", "__post_init__", "", 0)>>)
        ELSE res

\* 5. Import Check
check_isaac_import(res, tree) ==
    LET has_isaac_import ==
            \E i \in DOMAIN tree :
               /\ tree[i].t \in {"Import", "ImportFrom"}
               /\ tree[i].name # ""
               /\ (InStr("isaaclab", tree[i].name) \/ InStr("omni.isaac", tree[i].name))
    IN  IF ~has_isaac_import
        THEN Fail(res, <<Err("Missing Isaac Lab imports", "isaaclab", "", 0)>>)
        ELSE res

\* check 6 without its `if whitelist:`
check_whitelist_always(res, code, whitelist) ==
    LET unknown_symbols == check_api_symbols(code, whitelist)
    IN  IF unknown_symbols # <<>> THEN Fail(res, unknown_symbols) ELSE res

\* 6. API Whitelist Check
check_whitelist(res, code, whitelist) ==
    IF whitelist # {}
    THEN LET unknown_symbols == check_api_symbols(code, whitelist)
         IN  IF unknown_symbols # <<>> THEN Fail(res, unknown_symbols) ELSE res
    ELSE res

\* the error is appended but is_valid is left as it is
check_inline_robot_no_flag(res, code) ==
    IF InCode(DQ_NUCLEUS, code) \/ InCode(SQ_NUCLEUS, code)
    THEN [res EXCEPT !.errors =
             Append(res.errors, Err("Literal ISAACLAB_NUCLEUS_DIR string found",
                                    "ISAACLAB_NUCLEUS_DIR", "", 0))]
    ELSE res

\* only the double-quoted form is looked for
check_inline_robot_dq_only(res, code) ==
    IF InCode(DQ_NUCLEUS, code)
    THEN Fail(res, <<Err("Literal ISAACLAB_NUCLEUS_DIR string found",
                         "ISAACLAB_NUCLEUS_DIR", "", 0)>>)
    ELSE res

\* 7. Inline robot check
check_inline_robot(res, code) ==
    IF InCode(DQ_NUCLEUS, code) \/ InCode(SQ_NUCLEUS, code)
    THEN Fail(res, <<Err("Literal ISAACLAB_NUCLEUS_DIR string found",
                            "ISAACLAB_NUCLEUS_DIR", "", 0)>>)
    ELSE res

\* 8. Task-specific mdp import check
check_task_mdp(res, code) ==
    IF InCode(TASK_MDP_IMPORT, code)
    THEN [res EXCEPT !.warnings =
             Append(res.warnings, Warn("Task-specific mdp import found", <<>>))]
    ELSE res

\* Warnings: unusually large reward weights
check_weights(res, tree) ==
    [res EXCEPT !.warnings = res.warnings \o weight_walk(tree)]

\* lines 179-268: the checks on a parsed artifact
run_checks(code, whitelist) ==
    LET tree == ast_walk(code)
        class_names  == NamesOf(tree, "ClassDef")
        method_names == NamesOf(tree, "FunctionDef")
        r2 == check_env_cfg(NewResult, class_names)
        r3 == check_rewards_cfg(r2, class_names)
        r4 == check_post_init(r3, method_names)
        r5 == check_isaac_import(r4, tree)
        r6 == check_whitelist(r5, code, whitelist)
        r7 == check_inline_robot(r6, code)
        r8 == check_task_mdp(r7, code)
    IN  check_weights(r8, tree)

\* validate_config(code), with the registry that load_api_whitelist returns
validate_config(code, whitelist) ==
    IF ~ast_parse(code).ok THEN on_syntax_error(code) ELSE run_checks(code, whitelist)

\* does validate_config(code) end with an exception instead of a verdict
validate_raises(code) ==
    ast_parse(code).ok /\ weight_loop_raises(ast_walk(code))

(***************************************************************************)
(* Heuristic auto-corrector.                                               *)
(***************************************************************************)
\* the table with a replacement that is itself a flagged name
COMMON_CORRECTIONS_chained ==
    <<<<"joint_pos_l2", "joint_pos_target_l2">>,
      <<"joint_pos_l1", "joint_deviation_l1">>,
      <<"joint_pos_target_l1", "joint_pos_l2">>>>

COMMON_CORRECTIONS ==
    <<<<"joint_pos_l2", "joint_pos_target_l2">>,
      <<"joint_pos_l1", "joint_deviation_l1">>,
      <<"joint_vel_l2_asset", "joint_vel_l2">>,
      <<"action_rate_l2_norm", "action_rate_l2">>,
      <<"track_lin_vel_xy", "track_lin_vel_xy_exp">>,
      <<"track_ang_vel_z", "track_ang_vel_z_exp">>,
      <<"base_lin_vel_z_l2", "lin_vel_z_l2">>,
      <<"base_ang_vel_xy_l2", "ang_vel_xy_l2">>,
      <<"position_error_tanh", "position_command_error_tanh">>,
      <<"position_error", "position_command_error">>,
      <<"joint_pos_target_l1", "joint_pos_target_l2">>,
      <<"action_rate_l1", "action_rate_l2">>,
      <<"feet_air_time_biped_reward", "feet_air_time">>>>

\* what follows `wrong` in the identifier `name` that starts with it
Rest(name, wrong) ==
    IF name = wrong THEN ""
    ELSE IF Len(Parts(name)) = 2 /\ Parts(name)[1] = wrong THEN Parts(name)[2]
    ELSE "<no match>"

\* re: mdp\.<wrong> without the \b
correction_matches_no_boundary(s, wrong) ==
    /\ s.k = "access"
    /\ Parts(s.b)[Len(Parts(s.b))] = "mdp"
    /\ Rest(s.a, wrong) # "<no match>"

\* re: mdp\.<wrong>\b found in the text of statement s: "mdp." then wrong,
\* then no further identifier character.  The text before "mdp" is not
\* looked at.
correction_matches(s, wrong) ==
    /\ s.k = "access"
    /\ Parts(s.b)[Len(Parts(s.b))] = "mdp"
    /\ Rest(s.a, wrong) = ""

\* pattern.sub(..., count=1)
correction_sub_first_only(code, wrong, right) ==
    [i \in DOMAIN code |->
        IF /\ correction_matches(code[i], wrong)
           /\ \A j \in 1..(i - 1) : ~correction_matches(code[j], wrong)
        THEN [code[i] EXCEPT !.a = right \o Rest(code[i].a, wrong)] ELSE code[i]]

\* pattern.sub(f"mdp.{right}", corrected): the matched "mdp.<wrong>" becomes
\* "mdp.<right>", what follows it stays
correction_sub(code, wrong, right) ==
    [i \in DOMAIN code |->
        IF correction_matches(code[i], wrong)
        THEN [code[i] EXCEPT !.a = right \o Rest(code[i].a, wrong)] ELSE code[i]]

\* the loop over COMMON_CORRECTIONS.items(), from entry n on
RECURSIVE correct_from(_, _, _)
correct_from(n, corrected, corrections) ==
    IF n > Len(COMMON_CORRECTIONS)
    THEN [code |-> corrected, corrections |-> corrections]
    ELSE LET wrong == COMMON_CORRECTIONS[n][1]
             right == COMMON_CORRECTIONS[n][2]
         IN  IF \E i \in DOMAIN corrected : correction_matches(corrected[i], wrong)
             THEN correct_from(n + 1, correction_sub(corrected, wrong, right),
                               Append(corrections, <<wrong, right>>))
             ELSE correct_from(n + 1, corrected, corrections)

\* `return code, corrections`: the input text is returned
auto_correct_code_returns_input(code) ==
    [code |-> code, corrections |-> correct_from(1, code, <<>>).corrections]

auto_correct_code(code) == correct_from(1, code, <<>>)

(***************************************************************************)
(* Deterministic normalizer.                                               *)
(***************************************************************************)
\* RobotConfig: the import line (a statement), cfg_name; robot_line is
\* <cfg_name>.replace(prim_path="{ENV_REGEX_NS}/Robot")
CATEGORY_ROBOT_CONFIG ==
    [classic_cartpole |->
        [import_line |-> St("from", "isaaclab_assets.robots.cartpole", "CARTPOLE_CFG"),
         cfg_name |-> "CARTPOLE_CFG"],
     manipulation_reach |->
        [import_line |-> St("from", "isaaclab_assets.robots.franka",
                            "FRANKA_PANDA_HIGH_PD_CFG"),
         cfg_name |-> "FRANKA_PANDA_HIGH_PD_CFG"],
     locomotion_flat |->
        [import_line |-> St("from", "isaaclab_assets.robots.anymal", "ANYMAL_D_CFG"),
         cfg_name |-> "ANYMAL_D_CFG"],
     locomotion_rough |->
        [import_line |-> St("from", "isaaclab_assets.robots.anymal", "ANYMAL_D_CFG"),
         cfg_name |-> "ANYMAL_D_CFG"]]

\* "from isaaclab_tasks.manager_based.<x>.mdp import ..." (b = "(...)" for the
\* parenthesized multi-line form)
IsTaskMdpFrom(s) ==
    /\ s.k = "from"
    /\ Len(Parts(s.a)) >= 5
    /\ Parts(s.a)[1] = "isaaclab" /\ Parts(s.a)[2] = "_tasks"
    /\ Parts(s.a)[3] = ".manager_based."
    /\ Parts(s.a)[Len(Parts(s.a))] = ".mdp"

CoreMdpImport == St("import", "isaaclab.envs.mdp", "mdp")

\* step 1, pattern A
fix_task_mdp_import(r) ==
    IF InCode(TASK_MDP_IMPORT, r.code)
    THEN [code  |-> [i \in DOMAIN r.code |->
                        IF TASK_MDP_IMPORT \in Text(r.code[i])
                        THEN CoreMdpImport ELSE r.code[i]],
          fixes |-> Append(r.fixes, "Replaced task-specific mdp import")]
    ELSE r

RECURSIVE SubstFrom(_, _, _)
\* sub of every from-import of the given form by the statements in repl
SubstFrom(code, paren, repl) ==
    IF code = <<>> THEN <<>>
    ELSE (IF IsTaskMdpFrom(Head(code)) /\ (Head(code).b = "(...)") = paren
          THEN repl ELSE <<Head(code)>>) \o SubstFrom(Tail(code), paren, repl)

\* step 1, patterns B (paren = TRUE) and C (paren = FALSE)
fix_task_mdp_from(r, paren) ==
    IF \E i \in DOMAIN r.code :
          IsTaskMdpFrom(r.code[i]) /\ (r.code[i].b = "(...)") = paren
    THEN [code  |-> IF ~InCode(CORE_MDP_IMPORT, r.code)
                    THEN SubstFrom(r.code, paren, <<CoreMdpImport>>)
                    ELSE SubstFrom(r.code, paren, <<>>),
          fixes |-> Append(r.fixes,
                       IF paren THEN "Replaced task-specific from-import mdp block"
                       ELSE "Replaced task-specific from-import mdp line")]
    ELSE r

\* ^(?:from|import)\s+isaaclab(?!_tasks)\S*[^(\n]*$
IsInjectionPoint(s) ==
    /\ s.k \in {"import", "from"}
    /\ Parts(s.a)[1] = "isaaclab"
    /\ ~(Len(Parts(s.a)) >= 2 /\ Parts(s.a)[2] = "_tasks")
    /\ s.b # "(...)"

\* step 2: inject the robot import after the last isaaclab import line
inject_robot_import(r, cat) ==
    IF cat \in DOMAIN CATEGORY_ROBOT_CONFIG
       /\ ~InCode(CATEGORY_ROBOT_CONFIG[cat].cfg_name, r.code)
    THEN LET robot_cfg == CATEGORY_ROBOT_CONFIG[cat]
             points == {i \in DOMAIN r.code : IsInjectionPoint(r.code[i])}
         IN  IF points # {}
             THEN LET last == CHOOSE i \in points : \A j \in points : j <= i
                  IN  [code  |-> SubSeq(r.code, 1, last) \o <<robot_cfg.import_line>>
                                 \o SubSeq(r.code, last + 1, Len(r.code)),
                       fixes |-> Append(r.fixes, "Injected robot config import")]
             ELSE r
    ELSE r

\* inline_robot_pattern: a robot assignment with no ".replace(" on the line
\* it starts on
IsInlineRobot(s) == s.k = "robot" /\ ".replace(" \notin FirstLine(s)

\* step 3: replace the first inline robot definition
replace_inline_robot(r, cat) ==
    IF cat \in DOMAIN CATEGORY_ROBOT_CONFIG
       /\ \E i \in DOMAIN r.code : IsInlineRobot(r.code[i])
    THEN LET robot_cfg == CATEGORY_ROBOT_CONFIG[cat]
             first == CHOOSE i \in DOMAIN r.code :
                         /\ IsInlineRobot(r.code[i])
                         /\ \A j \in 1..(i - 1) : ~IsInlineRobot(r.code[j])
         IN  IF robot_cfg.cfg_name \notin FirstLine(r.code[first])
             THEN [code  |-> [r.code EXCEPT
                                ![first] = St("robot", "replace", robot_cfg.cfg_name)],
                   fixes |-> Append(r.fixes, "Replaced inline robot definition")]
             ELSE r
    ELSE r

\* step 4: only a note
note_literal_nucleus(r) ==
    IF InCode(DQ_NUCLEUS, r.code)
    THEN [r EXCEPT !.fixes = Append(r.fixes, "Warning: literal ISAACLAB_NUCLEUS_DIR")]
    ELSE r

post_process_env_cfg(code, cat) ==
    LET r0 == [code |-> code, fixes |-> <<>>]
        r1 == fix_task_mdp_from(fix_task_mdp_from(fix_task_mdp_import(r0), TRUE), FALSE)
        r2 == inject_robot_import(r1, cat)
        r3 == replace_inline_robot(r2, cat)
    IN  note_literal_nucleus(r3)

(***************************************************************************)
(* The validator on its own: validate_config called on one artifact.       *)
(***************************************************************************)
MaxExtra == 2

\* the statements artifacts are made of
Catalogue ==
    {St("from", "isaaclab.envs", "ManagerBasedRLEnvCfg"),
     St("from", "omni.isaac.lab.envs", "ManagerBasedRLEnvCfg"),
     St("import", "isaaclab_tasks.manager_based.classic.cartpole.mdp", "mdp"),
     St("import", "os", ""),
     St("class", "RewardsCfg", "top"),
     St("class", "CartpoleEnvCfg", "hook"),
     St("class", "InnerEnvCfg", "in_class"),
     St("class", "LocalRewardsCfg", "in_def"),
     St("def", "__post_init__", ""),
     St("access", "is_alive", "mdp"),
     St("access", "totally_fake_function", "mdp"),
     St("access", "action_rate_l3", "mdp"),
     St("access", "totally_fake_function", "my_mdp"),
     St("strlit", "dq", ""),
     St("strlit", "sq", ""),
     St("strlit", "var", ""),
     St("comment", "dq", ""),
     St("weight", "1.0", "top"),
     St("weight", "50.0", "top"),
     St("weight", "-50", "in_class"),
     St("weight", "-'high'", "top"),
     St("broken", "", "")}

\* what an artifact starts with: nothing, an import and a rewards class, or
\* all that checks 2-5 ask for
Skeletons ==
    {<<>>,
     <<St("from", "isaaclab.envs", "ManagerBasedRLEnvCfg"),
       St("class", "RewardsCfg", "top")>>,
     <<St("from", "isaaclab.envs", "ManagerBasedRLEnvCfg"),
       St("class", "RewardsCfg", "top"),
       St("class", "CartpoleEnvCfg", "hook")>>}

SeqsUpTo(S, n) == UNION {[1..m -> S] : m \in 0..n}

VCodes == {sk \o ex : sk \in Skeletons, ex \in SeqsUpTo(Catalogue, MaxExtra)}

EmptyCache == [loaded |-> FALSE, symbols |-> {}]

\* the states of the reference directory
ApiDirs == {"present", "empty", "absent"}

NumCallers == 2
MaxCalls == 2
Callers == 1..NumCallers
CallerIdle == [pc |-> "idle", computed |-> {}, n |-> 0]

\* no repeated validation and no client call is under way
XIdle ==
    /\ vlog = <<>> /\ vheap = <<>>
    /\ nim_key = FALSE /\ or_key = FALSE
    /\ cl_pc = "idle" /\ cl_tried = <<>> /\ cl_results = <<>>

\* no call of load_api_whitelist from a thread, of auto_correct_code or of
\* post_process_env_cfg on its own is under way
TIdle ==
    /\ calls = [c \in Callers |-> CallerIdle]
    /\ wl_returned = {}
    /\ ac_in = <<>> /\ ac_pc = "idle"
    /\ ac_out = [code |-> <<>>, corrections |-> <<>>]
    /\ ac_again = [code |-> <<>>, corrections |-> <<>>]
    /\ pp_in = <<>> /\ pp_cat = "classic_cartpole" /\ pp_pc = "idle"
    /\ pp_out = [code |-> <<>>, fixes |-> <<>>]
    /\ pp_again = [code |-> <<>>, fixes |-> <<>>]
    /\ XIdle

NoRequest == [code |-> <<>>, errors |-> <<>>, hint |-> [given |-> FALSE, names |-> {}]]
NoFile == <<St("<nothing written>", "", "")>>

\* the pipeline variables before _run_pipeline is entered
OIdle ==
    /\ frontend = "cli"
    /\ category = "classic_cartpole"
    /\ pc = "not_started"
    /\ env_cfg = <<>>
    /\ best_code = <<>>
    /\ result = NewResult
    /\ attempt = 0
    /\ request = NoRequest
    /\ requests = 0
    /\ stages = <<>>
    /\ verdicts = <<>>
    /\ outcome = "none"
    /\ reported = <<>>
    /\ output = NoFile
    /\ client_closed = FALSE

\* whitelist arguments of a direct check_api_symbols call
SymWhitelists == {{}, {"is_alive"}, DocSymbols \cup SUPPLEMENTAL_WHITELIST}

VInit ==
    /\ api_dir \in ApiDirs
    /\ wl_cache = EmptyCache
    /\ vcode \in VCodes
    /\ vpc = "idle"
    /\ vresult = NewResult
    /\ sym_pc = "idle"
    /\ sym_wl = {}
    /\ sym_errors = <<>>
    /\ OIdle
    /\ TIdle

\* a first call of load_api_whitelist from elsewhere in the process
LoadWhitelist ==
    /\ ~wl_cache.loaded
    /\ wl_cache' = load_api_whitelist(wl_cache, api_dir).cache
    /\ UNCHANGED <<tvars, api_dir, vvars, ovars>>

\* result = validate_config(vcode)
Validate ==
    /\ vpc = "idle"
    /\ LET wl == load_api_whitelist(wl_cache, api_dir)
       IN  /\ vresult' = IF validate_raises(vcode) THEN vresult
                          ELSE validate_config(vcode, wl.symbols)
           /\ wl_cache' = IF ast_parse(vcode).ok THEN wl.cache ELSE wl_cache
    /\ vpc' = IF validate_raises(vcode) THEN "raised" ELSE "returned"
    /\ UNCHANGED <<tvars, api_dir, vcode, sym_pc, sym_wl, sym_errors, ovars>>

\* errors = check_api_symbols(vcode, whitelist)
CheckSymbols(whitelist) ==
    /\ sym_pc = "idle"
    /\ sym_wl' = whitelist
    /\ sym_errors' = check_api_symbols(vcode, whitelist)
    /\ sym_pc' = "returned"
    /\ UNCHANGED <<tvars, shared, vcode, vpc, vresult, ovars>>

VNext ==
    \/ LoadWhitelist
    \/ Validate
    \/ \E whitelist \in SymWhitelists : CheckSymbols(whitelist)

SpecValidate == VInit /\ [][VNext]_vars

(***************************************************************************)
(* The repair orchestrator: one run of _run_pipeline / run_pipeline, from   *)
(* the await of generate_config on.  The text of a collaborator's answer   *)
(* is the env_cfg code it carries.                                         *)
(***************************************************************************)
MAX_REPAIR_ATTEMPTS == 2

ImportEnvs == St("from", "isaaclab.envs", "ManagerBasedRLEnvCfg")
RewardsClass == St("class", "RewardsCfg", "top")
EnvClass == St("class", "CartpoleEnvCfg", "hook")

\* what the Generator collaborator may answer
GenTexts ==
    {<<ImportEnvs, RewardsClass, EnvClass>>,
     <<ImportEnvs, RewardsClass, EnvClass, St("access", "joint_pos_l2", "mdp")>>,
     <<ImportEnvs, RewardsClass, EnvClass, St("access", "totally_fake_function", "mdp")>>,
     <<ImportEnvs, RewardsClass, EnvClass, St("robot", "inline", "")>>,
     <<St("import", "isaaclab_tasks.manager_based.classic.cartpole.mdp", "mdp"),
       RewardsClass, EnvClass, St("weight", "50.0", "top")>>,
     <<ImportEnvs, RewardsClass>>,
     <<ImportEnvs, RewardsClass, EnvClass, St("weight", "-'high'", "top")>>,
     <<St("broken", "", "")>>}

\* _build_config(...).env_cfg
build_config(env_cfg_code, cat) == post_process_env_cfg(env_cfg_code, cat).code

\* the hint without its `if not any("Unknown MDP function" in e ...)`
build_whitelist_hint_always(errors, cache, dir) ==
    [hint  |-> [given |-> TRUE, names |-> load_api_whitelist(cache, dir).symbols],
     cache |-> load_api_whitelist(cache, dir).cache]

\* _build_whitelist_hint(errors): [given, names] and the cache afterwards
build_whitelist_hint(errors, cache, dir) ==
    IF ~\E i \in DOMAIN errors : errors[i].kind = "Unknown MDP function"
    THEN [hint |-> [given |-> FALSE, names |-> {}], cache |-> cache]
    ELSE [hint  |-> [given |-> TRUE, names |-> load_api_whitelist(cache, dir).symbols],
          cache |-> load_api_whitelist(cache, dir).cache]

(***************************************************************************)
(* The registry in one process: load_api_whitelist called from several     *)
(* threads (one pipeline per Streamlit session), next to the engine        *)
(* operations that use it.  A call that misses the cache runs the body     *)
(* outside any lock and then stores its result unless another call did.    *)
(***************************************************************************)
\* the artifacts the engine operations are run on
RCodes ==
    {<<St("access", "is_alive", "mdp")>>,
     <<St("from", "isaaclab.envs", "ManagerBasedRLEnvCfg"),
       St("class", "RewardsCfg", "top"), St("class", "CartpoleEnvCfg", "hook"),
       St("access", "totally_fake_function", "mdp")>>}

RInit ==
    /\ api_dir \in ApiDirs
    /\ wl_cache = EmptyCache
    /\ vcode \in RCodes
    /\ vpc = "idle"
    /\ vresult = NewResult
    /\ sym_pc = "idle"
    /\ sym_wl = {}
    /\ sym_errors = <<>>
    /\ OIdle
    /\ TIdle

\* lru_cache: the result of a miss is stored unless the key is there by now
lru_store(cache, value) ==
    IF cache.loaded THEN cache ELSE [loaded |-> TRUE, symbols |-> value]

\* a call finds the cached set
CallHit(c) ==
    /\ calls[c].pc = "idle" /\ calls[c].n < MaxCalls
    /\ wl_cache.loaded
    /\ wl_returned' = wl_returned \cup {load_api_whitelist(wl_cache, api_dir).symbols}
    /\ wl_cache' = load_api_whitelist(wl_cache, api_dir).cache
    /\ calls' = [calls EXCEPT ![c].n = @ + 1]
    /\ UNCHANGED <<xvars, api_dir, vvars, ovars, avars, pvars>>

\* a call misses the cache and enters the body
CallMiss(c) ==
    /\ calls[c].pc = "idle" /\ calls[c].n < MaxCalls
    /\ ~wl_cache.loaded
    /\ calls' = [calls EXCEPT ![c].pc = "miss"]
    /\ UNCHANGED <<xvars, shared, vvars, ovars, wl_returned, avars, pvars>>

\* the body: scan the reference directory
CallScan(c) ==
    /\ calls[c].pc = "miss"
    /\ calls' = [calls EXCEPT ![c].pc = "scanned",
                              ![c].computed = scan_api_reference(api_dir)]
    /\ UNCHANGED <<xvars, shared, vvars, ovars, wl_returned, avars, pvars>>

\* the wrapper stores the result and the call returns it
CallStore(c) ==
    /\ calls[c].pc = "scanned"
    /\ wl_cache' = lru_store(wl_cache, calls[c].computed)
    /\ wl_returned' = wl_returned \cup {calls[c].computed}
    /\ calls' = [calls EXCEPT ![c].pc = "idle", ![c].n = @ + 1]
    /\ UNCHANGED <<xvars, api_dir, vvars, ovars, avars, pvars>>

\* hint = _build_whitelist_hint(result.errors) on the verdict of Validate
BuildHint ==
    /\ vpc = "returned" /\ request = NoRequest
    /\ LET h == build_whitelist_hint(vresult.errors, wl_cache, api_dir)
       IN  /\ request' = [code |-> vcode, errors |-> vresult.errors, hint |-> h.hint]
           /\ wl_cache' = h.cache
           /\ wl_returned' = IF h.hint.given THEN wl_returned \cup {h.hint.names}
                             ELSE wl_returned
    /\ UNCHANGED <<xvars, api_dir, vvars, frontend, category, pc, env_cfg, best_code, result,
                   attempt, requests, stages, verdicts, outcome, reported, output,
                   client_closed, calls, avars, pvars>>

RNext ==
    \/ \E c \in Callers : CallHit(c)
    \/ \E c \in Callers : CallMiss(c)
    \/ \E c \in Callers : CallScan(c)
    \/ \E c \in Callers : CallStore(c)
    \/ Validate
    \/ \E whitelist \in SymWhitelists : CheckSymbols(whitelist)
    \/ BuildHint

SpecRegistry == RInit /\ [][RNext]_vars

(***************************************************************************)
(* The auto-corrector on its own: auto_correct_code called on a text, then *)
(* on its own output, and the corrected text checked against the registry. *)
(***************************************************************************)
MaxAccess == 2

\* attribute names: the flagged names of the table, names that extend a
\* flagged name, and names the table does not know
CorrNames ==
    {COMMON_CORRECTIONS[n][1] : n \in DOMAIN COMMON_CORRECTIONS}
    \cup {"track_lin_vel_xy_exp", "joint_pos_l2_scaled", "action_rate_l1_norm",
          "is_alive", "joint_pos_target_l2"}

CorrStatements ==
    {St("access", a, b) : a \in CorrNames, b \in {"mdp", "my_mdp"}}
    \cup {St("import", "os", "")}

ACodes == SeqsUpTo(CorrStatements, MaxAccess)

CInit ==
    /\ api_dir \in ApiDirs
    /\ wl_cache = EmptyCache
    /\ vcode = <<>> /\ vpc = "idle" /\ vresult = NewResult
    /\ sym_pc = "idle" /\ sym_wl = {} /\ sym_errors = <<>>
    /\ OIdle
    /\ calls = [c \in Callers |-> CallerIdle]
    /\ wl_returned = {}
    /\ ac_in \in ACodes /\ ac_pc = "idle"
    /\ ac_out = [code |-> <<>>, corrections |-> <<>>]
    /\ ac_again = [code |-> <<>>, corrections |-> <<>>]
    /\ pp_in = <<>> /\ pp_cat = "classic_cartpole" /\ pp_pc = "idle"
    /\ pp_out = [code |-> <<>>, fixes |-> <<>>]
    /\ pp_again = [code |-> <<>>, fixes |-> <<>>]
    /\ XIdle

\* corrected, corrections = auto_correct_code(code)
Correct ==
    /\ ac_pc = "idle"
    /\ ac_out' = auto_correct_code(ac_in)
    /\ ac_pc' = "once"
    /\ UNCHANGED <<xvars, shared, vvars, ovars, rvars, ac_in, ac_again, pvars>>

\* auto_correct_code(corrected)
CorrectAgain ==
    /\ ac_pc = "once"
    /\ ac_again' = auto_correct_code(ac_out.code)
    /\ ac_pc' = "twice"
    /\ UNCHANGED <<xvars, shared, vvars, ovars, rvars, ac_in, ac_out, pvars>>

\* whitelist = load_api_whitelist(); check_api_symbols(corrected, whitelist)
CheckCorrected ==
    /\ ac_pc # "idle" /\ sym_pc = "idle"
    /\ LET wl == load_api_whitelist(wl_cache, api_dir)
       IN  /\ sym_wl' = wl.symbols
           /\ sym_errors' = check_api_symbols(ac_out.code, wl.symbols)
           /\ wl_cache' = wl.cache
    /\ sym_pc' = "returned"
    /\ UNCHANGED <<api_dir, vcode, vpc, vresult, ovars, tvars>>

CNext ==
    \/ Correct
    \/ CorrectAgain
    \/ CheckCorrected

SpecCorrect == CInit /\ [][CNext]_vars

(***************************************************************************)
(* The normalizer on its own: post_process_env_cfg called on a text and a  *)
(* category, then on its own output with the same category.                *)
(***************************************************************************)
MaxNorm == 3

TaskMdp == "isaaclab_tasks.manager_based.classic.cartpole.mdp"

NormStatements ==
    {St("import", TaskMdp, "mdp"),
     St("from", TaskMdp, "(...)"),
     St("from", TaskMdp, "joint_pos_target_l2"),
     CoreMdpImport,
     St("from", "isaaclab.envs", "ManagerBasedRLEnvCfg"),
     St("from", "isaaclab_assets.robots.cartpole", "CARTPOLE_CFG"),
     St("robot", "inline", ""),
     St("robot", "missing", ""),
     St("robot", "replace", "CARTPOLE_CFG"),
     St("robot", "derived", "CARTPOLE_CFG"),
     St("strlit", "dq", ""),
     St("class", "RewardsCfg", "top")}

PCodes == SeqsUpTo(NormStatements, MaxNorm)

\* category arguments: two keys of CATEGORY_ROBOT_CONFIG and one that is not
PCategories == {"classic_cartpole", "manipulation_reach", "unknown_category"}

PInit ==
    /\ api_dir = "present"
    /\ wl_cache = EmptyCache
    /\ vcode = <<>> /\ vpc = "idle" /\ vresult = NewResult
    /\ sym_pc = "idle" /\ sym_wl = {} /\ sym_errors = <<>>
    /\ OIdle
    /\ calls = [c \in Callers |-> CallerIdle]
    /\ wl_returned = {}
    /\ ac_in = <<>> /\ ac_pc = "idle"
    /\ ac_out = [code |-> <<>>, corrections |-> <<>>]
    /\ ac_again = [code |-> <<>>, corrections |-> <<>>]
    /\ pp_in \in PCodes /\ pp_cat \in PCategories /\ pp_pc = "idle"
    /\ pp_out = [code |-> <<>>, fixes |-> <<>>]
    /\ pp_again = [code |-> <<>>, fixes |-> <<>>]
    /\ XIdle

\* fixed, fixes = post_process_env_cfg(code, category)
Normalize ==
    /\ pp_pc = "idle"
    /\ pp_out' = post_process_env_cfg(pp_in, pp_cat)
    /\ pp_pc' = "once"
    /\ UNCHANGED <<xvars, shared, vvars, ovars, rvars, avars, pp_in, pp_cat, pp_again>>

\* post_process_env_cfg(fixed, category)
NormalizeAgain ==
    /\ pp_pc = "once"
    /\ pp_again' = post_process_env_cfg(pp_out.code, pp_cat)
    /\ pp_pc' = "twice"
    /\ UNCHANGED <<xvars, shared, vvars, ovars, rvars, avars, pp_in, pp_cat, pp_out>>

PNext ==
    \/ Normalize
    \/ NormalizeAgain

SpecNormalize == PInit /\ [][PNext]_vars

(***************************************************************************)
(* The collaborator's client: one NemotronClient, its keys read from the   *)
(* environment when it is constructed, and calls of generate one after     *)
(* another.  A provider answers a post or the post raises (connection      *)
(* error, timeout, HTTP error status, malformed body).                     *)
(***************************************************************************)
MaxGenerate == 3

\* generate returns or raises
EndCall(how) ==
    /\ cl_results' = Append(cl_results, [tried |-> cl_tried', outcome |-> how])
    /\ cl_pc' = "idle"

\* lines 46-53 after the NIM branch was skipped or its exception swallowed:
\* post to OpenRouter if its key is set, else RuntimeError("No API key set")
after_nim(nim_failed) ==
    IF or_key THEN "or_wait" ELSE "no_api_key"

NInit ==
    /\ api_dir = "present"
    /\ wl_cache = EmptyCache
    /\ vcode = <<>> /\ vpc = "idle" /\ vresult = NewResult
    /\ sym_pc = "idle" /\ sym_wl = {} /\ sym_errors = <<>>
    /\ OIdle
    /\ calls = [c \in Callers |-> CallerIdle]
    /\ wl_returned = {}
    /\ ac_in = <<>> /\ ac_pc = "idle"
    /\ ac_out = [code |-> <<>>, corrections |-> <<>>]
    /\ ac_again = [code |-> <<>>, corrections |-> <<>>]
    /\ pp_in = <<>> /\ pp_cat = "classic_cartpole" /\ pp_pc = "idle"
    /\ pp_out = [code |-> <<>>, fixes |-> <<>>]
    /\ pp_again = [code |-> <<>>, fixes |-> <<>>]
    /\ vlog = <<>> /\ vheap = <<>>
    /\ nim_key \in BOOLEAN /\ or_key \in BOOLEAN
    /\ cl_pc = "idle" /\ cl_tried = <<>> /\ cl_results = <<>>

\* generate is called: up to the first await, or to the raise at its end
StartGenerate ==
    /\ cl_pc = "idle" /\ Len(cl_results) < MaxGenerate
    /\ IF nim_key
       THEN /\ cl_tried' = <<"nim">>
            /\ cl_pc' = "nim_wait"
            /\ UNCHANGED cl_results
       ELSE IF after_nim(FALSE) = "or_wait"
       THEN /\ cl_tried' = <<"openrouter">>
            /\ cl_pc' = "or_wait"
            /\ UNCHANGED cl_results
       ELSE /\ cl_tried' = <<>>
            /\ EndCall(after_nim(FALSE))
    /\ UNCHANGED <<shared, vvars, ovars, rvars, avars, pvars, dvars, nim_key, or_key>>

\* the NIM post answers: return await self._call(NIM_URL, ...)
NimAnswers ==
    /\ cl_pc = "nim_wait"
    /\ cl_tried' = cl_tried
    /\ EndCall("nim_response")
    /\ UNCHANGED <<shared, vvars, ovars, rvars, avars, pvars, dvars, nim_key, or_key>>

\* the NIM post raises: except Exception, a warning, and on to line 46
NimFails ==
    /\ cl_pc = "nim_wait"
    /\ IF after_nim(TRUE) = "or_wait"
       THEN /\ cl_tried' = Append(cl_tried, "openrouter")
            /\ cl_pc' = "or_wait"
            /\ UNCHANGED cl_results
       ELSE /\ cl_tried' = cl_tried
            /\ EndCall(after_nim(TRUE))
    /\ UNCHANGED <<shared, vvars, ovars, rvars, avars, pvars, dvars, nim_key, or_key>>

\* the OpenRouter post answers
OpenRouterAnswers ==
    /\ cl_pc = "or_wait"
    /\ cl_tried' = cl_tried
    /\ EndCall("openrouter_response")
    /\ UNCHANGED <<shared, vvars, ovars, rvars, avars, pvars, dvars, nim_key, or_key>>

\* the OpenRouter post raises: nothing catches it
OpenRouterFails ==
    /\ cl_pc = "or_wait"
    /\ cl_tried' = cl_tried
    /\ EndCall("openrouter_error")
    /\ UNCHANGED <<shared, vvars, ovars, rvars, avars, pvars, dvars, nim_key, or_key>>

NNext ==
    \/ StartGenerate
    \/ NimAnswers
    \/ NimFails
    \/ OpenRouterAnswers
    \/ OpenRouterFails

SpecClient == NInit /\ [][NNext]_vars

(***************************************************************************)
(* validate_config called again and again in one process, on the same and  *)
(* on other artifacts.  A verdict is a ValidationResult object: is_valid    *)
(* and two references to list objects.                                     *)
(***************************************************************************)
MaxValidations == 3

DCodes ==
    {<<ImportEnvs, RewardsClass, EnvClass>>,
     <<ImportEnvs, RewardsClass, St("access", "totally_fake_function", "mdp"),
       St("weight", "50.0", "top")>>,
     <<St("broken", "", "")>>,
     <<St("weight", "-'high'", "top")>>}

\* one list object for every ValidationResult, as a class attribute would be
new_lists_shared(heap) == [e |-> 1, w |-> 2]

\* errors / warnings: list[str] = field(default_factory=list), and the list
\* literal of line 175: two new list objects for every ValidationResult
new_lists(heap) == [e |-> Len(heap) + 1, w |-> Len(heap) + 2]

\* the heap with the objects of refs in it, new ones empty
with_lists(heap, refs) ==
    [r \in 1..(IF refs.w > Len(heap) THEN refs.w ELSE Len(heap)) |->
        IF r \in DOMAIN heap THEN heap[r] ELSE <<>>]

DInit ==
    /\ api_dir \in ApiDirs
    /\ wl_cache = EmptyCache
    /\ vcode = <<>> /\ vpc = "idle" /\ vresult = NewResult
    /\ sym_pc = "idle" /\ sym_wl = {} /\ sym_errors = <<>>
    /\ OIdle
    /\ TIdle

\* result = validate_config(code): the verdict's lists are filled by append
\* and extend
ValidateCall(code) ==
    /\ Len(vlog) < MaxValidations
    /\ LET wl   == load_api_whitelist(wl_cache, api_dir)
           res  == validate_config(code, wl.symbols)
           refs == new_lists(vheap)
           heap == with_lists(vheap, refs)
       IN  /\ wl_cache' = IF ast_parse(code).ok THEN wl.cache ELSE wl_cache
           /\ IF validate_raises(code)
              THEN /\ vlog' = Append(vlog, [code |-> code, outcome |-> "raised",
                                            is_valid |-> FALSE, e |-> 0, w |-> 0])
                   /\ UNCHANGED vheap
              ELSE /\ vlog' = Append(vlog, [code |-> code, outcome |-> "returned",
                                            is_valid |-> res.is_valid,
                                            e |-> refs.e, w |-> refs.w])
                   /\ vheap' = [heap EXCEPT ![refs.e] = @ \o res.errors,
                                            ![refs.w] = @ \o res.warnings]
    /\ UNCHANGED <<api_dir, vvars, ovars, rvars, avars, pvars, nvars>>

DNext ==
    \/ LoadWhitelist
    \/ \E code \in DCodes : ValidateCall(code)

SpecRevalidate == DInit /\ [][DNext]_vars

\* the loop without its `if result.is_valid: break`
loop_continues_no_break(n, res) == n < MAX_REPAIR_ATTEMPTS

\* `for attempt in range(MAX_REPAIR_ATTEMPTS): if result.is_valid: break`
\* with n iterations completed: is there another repair round
loop_continues(n, res) == n < MAX_REPAIR_ATTEMPTS /\ ~res.is_valid

OInit ==
    /\ api_dir \in ApiDirs
    /\ wl_cache = EmptyCache
    /\ vcode = <<>> /\ vpc = "idle" /\ vresult = NewResult
    /\ sym_pc = "idle" /\ sym_wl = {} /\ sym_errors = <<>>
    /\ frontend \in {"cli", "ui"}
    /\ category \in {"classic_cartpole", "manipulation_reach"}
    /\ pc = "generate_wait"
    /\ env_cfg = <<>>
    /\ best_code = <<>>
    /\ result = NewResult
    /\ attempt = 0
    /\ request = NoRequest
    /\ requests = 0
    /\ stages = <<>>
    /\ verdicts = <<>>
    /\ outcome = "none"
    /\ reported = <<>>
    /\ output = NoFile
    /\ client_closed = FALSE
    /\ TIdle

\* best_code, _ = auto_correct_code(text); result = validate_config(best_code)
CorrectAndValidate(text) ==
    LET corrected == auto_correct_code(text).code
        wl == load_api_whitelist(wl_cache, api_dir)
    IN  /\ best_code' = corrected
        /\ wl_cache' = IF ast_parse(corrected).ok THEN wl.cache ELSE wl_cache
        /\ IF validate_raises(corrected)
           THEN \* the TypeError leaves the run through the finally clause
                /\ pc' = "crashed"
                /\ client_closed' = TRUE
                /\ UNCHANGED <<result, verdicts>>
           ELSE /\ result' = validate_config(corrected, wl.symbols)
                /\ verdicts' =
                      Append(verdicts, validate_config(corrected, wl.symbols).is_valid)
                /\ pc' = "loop_head"
                /\ UNCHANGED client_closed

\* generate_config answers: _build_config, then auto-correct and validate
GenerateResponse(text) ==
    /\ pc = "generate_wait"
    /\ env_cfg' = build_config(text, category)
    /\ CorrectAndValidate(build_config(text, category))
    /\ stages' = <<"normalize", "correct", "validate">>
    /\ UNCHANGED <<tvars, api_dir, vvars, frontend, category, attempt, request, requests,
                   outcome, reported, output>>

\* every repair asks about the artifact generate_config produced
repair_args_original(best, res) == [code |-> env_cfg, errors |-> res.errors]

\* the arguments of repair_config: original_code = best_code and
\* errors = result.errors, as the loop has them now
repair_args(best, res) == [code |-> best, errors |-> res.errors]

\* the loop goes on: repair_config(client, best_code, result.errors, ...)
IssueRepair ==
    /\ pc = "loop_head"
    /\ loop_continues(attempt, result)
    /\ LET h == build_whitelist_hint(result.errors, wl_cache, api_dir)
       IN  /\ request' = [code   |-> repair_args(best_code, result).code,
                         errors |-> repair_args(best_code, result).errors,
                         hint   |-> h.hint]
           /\ wl_cache' = h.cache
    /\ requests' = requests + 1
    /\ pc' = "repair_wait"
    /\ UNCHANGED <<tvars, api_dir, vvars, frontend, category, env_cfg, best_code, result,
                   attempt, stages, verdicts, outcome, reported, output, client_closed>>

\* repair_config answers: auto-correct and validate, next iteration
RepairResponse(text) ==
    /\ pc = "repair_wait"
    /\ CorrectAndValidate(text)
    /\ stages' = <<"correct", "validate">>
    /\ attempt' = attempt + 1
    /\ UNCHANGED <<tvars, api_dir, vvars, frontend, category, env_cfg, request, requests,
                   outcome, reported, output>>

\* an artifact that failed validation is dropped
packaged_env_cfg_valid_only(code, res, cat) ==
    IF res.is_valid THEN build_config(code, cat) ELSE <<>>

\* the env_cfg that goes to packaging after the loop
packaged_env_cfg(code, res, cat) == build_config(code, cat)

\* the loop is left (break, or range exhausted): final errors, _build_config
ExitLoop ==
    /\ pc = "loop_head"
    /\ ~loop_continues(attempt, result)
    /\ outcome' = IF result.is_valid THEN "Accepted" ELSE "BestEffort"
    /\ reported' = IF frontend = "cli" /\ result.is_valid THEN <<>> ELSE result.errors
    /\ env_cfg' = packaged_env_cfg(best_code, result, category)
    /\ pc' = "explain_wait"
    /\ UNCHANGED <<tvars, shared, vvars, frontend, category, best_code, result, attempt,
                   request, requests, stages, verdicts, output, client_closed>>

\* explain_config answers: the files are written / the config is stored, and
\* the finally clause closes the client
ExplainResponse ==
    /\ pc = "explain_wait"
    /\ output' = env_cfg
    /\ client_closed' = TRUE
    /\ pc' = "done"
    /\ UNCHANGED <<tvars, shared, vvars, frontend, category, env_cfg, best_code, result,
                   attempt, request, requests, stages, verdicts, outcome, reported>>

\* the same without `finally: await client.close()`
CollaboratorFails_no_finally ==
    /\ pc \in {"generate_wait", "repair_wait", "explain_wait"}
    /\ pc' = "failed"
    /\ UNCHANGED <<tvars, shared, vvars, frontend, category, env_cfg, best_code, result,
                   attempt, request, requests, stages, verdicts, outcome, reported,
                   output, client_closed>>

\* an awaited collaborator call raises: the exception leaves the run through
\* the finally clause
CollaboratorFails ==
    /\ pc \in {"generate_wait", "repair_wait", "explain_wait"}
    /\ client_closed' = TRUE
    /\ pc' = "failed"
    /\ UNCHANGED <<tvars, shared, vvars, frontend, category, env_cfg, best_code, result,
                   attempt, request, requests, stages, verdicts, outcome, reported,
                   output>>

ONext ==
    \/ \E text \in GenTexts : GenerateResponse(text)
    \/ IssueRepair
    \/ \E text \in GenTexts : RepairResponse(text)
    \/ ExitLoop
    \/ ExplainResponse
    \/ CollaboratorFails

Spec == OInit /\ [][ONext]_vars

(***************************************************************************)
(* Properties of the validator.  The artifact is described here from its   *)
(* statements, not from the tree the validator builds.                     *)
(***************************************************************************)
Returned == vpc = "returned"

Parseable(code) == \A i \in DOMAIN code : code[i].k # "broken"

ErrKinds(errs) == [i \in DOMAIN errs |-> errs[i].kind]

CountKind(errs, kind) == Cardinality({i \in DOMAIN errs : errs[i].kind = kind})

\* a class definition, at any nesting level, whose name contains the marker
HasClass(code, marker) ==
    \E i \in DOMAIN code : code[i].k = "class" /\ InStr(marker, code[i].a)

\* a module-level class definition whose name contains the marker
HasTopLevelClass(code, marker) ==
    \E i \in DOMAIN code :
        code[i].k = "class" /\ code[i].b \in {"top", "hook"} /\ InStr(marker, code[i].a)

HasHook(code) ==
    \E i \in DOMAIN code :
        \/ code[i].k = "def" /\ code[i].a = "__post_init__"
        \/ code[i].k = "class" /\ code[i].b = "hook"

HasIsaacImport(code) ==
    \E i \in DOMAIN code :
        /\ code[i].k \in {"import", "from"}
        /\ (InStr("isaaclab", code[i].a) \/ InStr("omni.isaac", code[i].a))

\* a string literal that starts with ISAACLAB_NUCLEUS_DIR/
HasNucleusLiteral(code) ==
    \E i \in DOMAIN code :
        \/ code[i].k = "strlit" /\ code[i].a \in {"dq", "sq"}
        \/ code[i].k = "robot" /\ code[i].a = "inline"

\* the text has a quote directly followed by ISAACLAB_NUCLEUS_DIR/
HasQuotedNucleus(code) ==
    \E i \in DOMAIN code :
        \/ code[i].k \in {"strlit", "comment"} /\ code[i].a \in {"dq", "sq"}
        \/ code[i].k = "robot" /\ code[i].a = "inline"

\* the names N accessed as mdp.N
MdpNames(code) == {code[i].a : i \in {j \in DOMAIN code :
                                        code[j].k = "access" /\ code[j].b = "mdp"}}

HasWarningSource(code) ==
    \E i \in DOMAIN code :
        \/ code[i].k = "weight" /\ code[i].a \in {"50.0", "-50"}
        \/ code[i].k = "import" /\ InStr("_tasks", code[i].a)

\* C5: a returned verdict has is_valid = FALSE exactly when its error list is
\* non-empty; warnings do not enter into it.
C5_VerdictInvariant ==
    Returned => (vresult.is_valid = FALSE <=> vresult.errors # <<>>)

C5_Witness ==
    /\ Returned
    /\ vresult.is_valid /\ vresult.errors = <<>>
    /\ Len(vresult.warnings) >= 2

\* C6: for an artifact that does not parse the verdict is invalid with the
\* SyntaxError (and its line) as the only error and no warning at all.
C6_ParseShortCircuit ==
    (Returned /\ ~Parseable(vcode)) =>
        /\ vresult.is_valid = FALSE
        /\ Len(vresult.errors) = 1
        /\ vresult.errors[1].kind = "SyntaxError"
        /\ vresult.errors[1].line \in 1..(3 * Len(vcode))
        /\ vresult.warnings = <<>>

C6_Witness ==
    /\ Returned /\ ~Parseable(vcode)
    /\ HasWarningSource(vcode) /\ ~HasClass(vcode, "EnvCfg")
    /\ Len(vresult.errors) = 1

\* the registry validate_config works with
Registry ==
    CASE api_dir = "present" -> DocSymbols \cup SUPPLEMENTAL_WHITELIST
      [] api_dir = "empty"   -> SUPPLEMENTAL_WHITELIST
      [] OTHER               -> {}

\* the errors of checks 2-5 that are due, in check order
StructuralDue(code) ==
    (IF HasClass(code, "EnvCfg") THEN <<>> ELSE <<"Missing environment config class">>)
    \o (IF HasClass(code, "RewardsCfg") THEN <<>> ELSE <<"Missing rewards config">>)
    \o (IF HasHook(code) THEN <<>> ELSE <<"Missing __post_init__ method">>)
    \o (IF HasIsaacImport(code) THEN <<>> ELSE <<"Missing Isaac Lab imports">>)

\* the names check 6 has to report; the check is skipped without a registry
UnknownDue(code) == IF Registry = {} THEN {} ELSE MdpNames(code) \ Registry

LiteralDue(code) ==
    IF HasQuotedNucleus(code) THEN <<"Literal ISAACLAB_NUCLEUS_DIR string found">>
    ELSE <<>>

\* C7: for a parseable artifact the error list is, in this order, one error
\* for each failing check among 2-5, one "Unknown MDP function" error for each
\* distinct unknown mdp symbol, and the reserved-literal error if due; nothing
\* else.
C7_ExactErrorList ==
    (Returned /\ Parseable(vcode)) =>
        LET errs == vresult.errors
            n1   == Len(StructuralDue(vcode))
            n2   == Cardinality(UnknownDue(vcode))
            n3   == Len(LiteralDue(vcode))
        IN  /\ Len(errs) = n1 + n2 + n3
            /\ SubSeq(ErrKinds(errs), 1, n1) = StructuralDue(vcode)
            /\ \A i \in (n1 + 1)..(n1 + n2) : errs[i].kind = "Unknown MDP function"
            /\ {errs[i].name : i \in (n1 + 1)..(n1 + n2)} = UnknownDue(vcode)
            /\ SubSeq(ErrKinds(errs), n1 + n2 + 1, n1 + n2 + n3) = LiteralDue(vcode)

\* every check from 2 to 7 contributes an error
C7_Witness ==
    /\ Returned /\ Parseable(vcode)
    /\ Len(vresult.errors) = 6
    /\ Cardinality(UnknownDue(vcode)) = 1
    /\ HasQuotedNucleus(vcode)

MissingClassError(marker) ==
    \E i \in DOMAIN vresult.errors :
        /\ vresult.errors[i].kind \in {"Missing environment config class",
                                       "Missing rewards config"}
        /\ vresult.errors[i].name = marker

\* C8 as stated: the class checks look at module-level classes only, so an
\* artifact whose only EnvCfg (RewardsCfg) class is nested gets the error.
C8_TopLevelOnly ==
    (Returned /\ Parseable(vcode)) =>
        \A marker \in {"EnvCfg", "RewardsCfg"} :
            MissingClassError(marker) <=> ~HasTopLevelClass(vcode, marker)

\* C8 amended: the class checks pass exactly when some class definition at
\* any nesting level (module level, inside a class, inside a function) has
\* the marker in its name.
C8_AnyLevelClass ==
    (Returned /\ Parseable(vcode)) =>
        \A marker \in {"EnvCfg", "RewardsCfg"} :
            MissingClassError(marker) <=> ~HasClass(vcode, marker)

C8_Witness ==
    /\ Returned /\ Parseable(vcode)
    /\ HasClass(vcode, "EnvCfg") /\ ~HasTopLevelClass(vcode, "EnvCfg")
    /\ ~MissingClassError("EnvCfg")
    /\ vresult.is_valid

LiteralErrors == CountKind(vresult.errors, "Literal ISAACLAB_NUCLEUS_DIR string found")

\* C9 as stated: every artifact with a string literal starting with
\* ISAACLAB_NUCLEUS_DIR/ is invalid with the error naming the token, and an
\* artifact without such a literal never gets that error.
C9_LiteralIffError ==
    Returned =>
        /\ HasNucleusLiteral(vcode) => (~vresult.is_valid /\ LiteralErrors >= 1)
        /\ ~HasNucleusLiteral(vcode) => LiteralErrors = 0

\* C9 amended: a parseable artifact gets the error (once, and is invalid)
\* exactly when its text has a quote directly followed by
\* ISAACLAB_NUCLEUS_DIR/, whatever checks 2-6 say; an unparseable artifact
\* never gets it.
C9_QuotedTokenIffError ==
    Returned =>
        /\ Parseable(vcode) =>
              /\ LiteralErrors = (IF HasQuotedNucleus(vcode) THEN 1 ELSE 0)
              /\ HasQuotedNucleus(vcode) => ~vresult.is_valid
              /\ \A i \in DOMAIN vresult.errors :
                    vresult.errors[i].kind = "Literal ISAACLAB_NUCLEUS_DIR string found"
                    => vresult.errors[i].name = "ISAACLAB_NUCLEUS_DIR"
        /\ ~Parseable(vcode) => (LiteralErrors = 0 /\ ~vresult.is_valid)

\* checks 2-6 pass, the literal alone fails the artifact
C9_Witness ==
    /\ Returned /\ Parseable(vcode)
    /\ \E i \in DOMAIN vcode : vcode[i].k = "strlit" /\ vcode[i].a = "sq"
    /\ Len(vresult.errors) = 1 /\ LiteralErrors = 1
    /\ ~vresult.is_valid

SymReturned == sym_pc = "returned"

\* C10: check_api_symbols returns one error for each distinct name N accessed
\* as mdp.N that is not in the whitelist, none for a name in the whitelist
\* or accessed on another base, and the error names N.
C10_OneErrorPerUnknownName ==
    SymReturned =>
        IF Parseable(vcode)
        THEN /\ \A i \in DOMAIN sym_errors : sym_errors[i].kind = "Unknown MDP function"
             /\ \A n \in MdpNames(vcode) \ sym_wl :
                   Cardinality({i \in DOMAIN sym_errors : sym_errors[i].name = n}) = 1
             /\ \A i \in DOMAIN sym_errors : sym_errors[i].name \in MdpNames(vcode) \ sym_wl
        ELSE sym_errors = <<>>

\* the same unknown name accessed twice
C10_Witness ==
    /\ SymReturned /\ Parseable(vcode)
    /\ \E i, j \in DOMAIN vcode :
          /\ i < j /\ vcode[i] = vcode[j]
          /\ vcode[i].k = "access" /\ vcode[i].b = "mdp" /\ vcode[i].a \notin sym_wl
    /\ Len(sym_errors) = 1

(***************************************************************************)
(* Properties of the orchestrator.                                         *)
(***************************************************************************)
LoopEnded == outcome # "none"

\* what is left of the run: two steps for every repair round still possible,
\* then the exit of the loop and the packaging
Rank ==
    CASE pc = "generate_wait" -> 2 * MAX_REPAIR_ATTEMPTS + 4
      [] pc = "loop_head"     -> 2 * (MAX_REPAIR_ATTEMPTS - attempt) + 3
      [] pc = "repair_wait"   -> 2 * (MAX_REPAIR_ATTEMPTS - attempt) + 2
      [] pc = "explain_wait"  -> 2
      [] OTHER                -> 0

\* C1: a run never issues more than MAX_REPAIR_ATTEMPTS repair requests; the
\* loop ends Accepted with a valid verdict or BestEffort with an invalid
\* verdict after MAX_REPAIR_ATTEMPTS requests; and the loop does end that
\* way, whatever text the collaborator answers: every step of the run brings
\* it closer to its end, and a run that stopped without a failed collaborator
\* call has left the loop Accepted or BestEffort.
C1_BoundedRepair ==
    /\ [](/\ requests <= MAX_REPAIR_ATTEMPTS
          /\ Rank >= 0
          /\ outcome = "Accepted" => result.is_valid
          /\ outcome = "BestEffort" =>
                (~result.is_valid /\ requests = MAX_REPAIR_ATTEMPTS)
          /\ LoopEnded => pc \in {"explain_wait", "done", "failed"}
          /\ pc \notin {"generate_wait", "loop_head", "repair_wait", "failed"} =>
                outcome \in {"Accepted", "BestEffort"})
    /\ [][Rank' < Rank]_vars

\* C2: a repair request is issued exactly when the latest verdict is invalid
\* and fewer than MAX_REPAIR_ATTEMPTS requests were issued; so every verdict
\* but the last is invalid, there is one request per invalid verdict that was
\* followed by another validation, and the loop is left at the first valid
\* verdict.
C2_RequestIffInvalid ==
    /\ [](/\ verdicts = <<>> => requests = 0
          /\ pc = "loop_head" \/ LoopEnded => requests = Len(verdicts) - 1
          /\ pc = "repair_wait" => requests = Len(verdicts)
          /\ \A i \in 1..(Len(verdicts) - 1) : ~verdicts[i]
          /\ LoopEnded => (result.is_valid \/ requests = MAX_REPAIR_ATTEMPTS)
          /\ (LoopEnded /\ verdicts[1]) => requests = 0
          /\ (LoopEnded /\ Len(verdicts) = 2 /\ verdicts[2]) =>
                (requests = 1 /\ result.is_valid))
    /\ [][/\ requests' = requests + 1 =>
                (pc = "loop_head" /\ ~result.is_valid /\ requests < MAX_REPAIR_ATTEMPTS)
          /\ (pc = "loop_head" /\ ~result.is_valid /\ requests < MAX_REPAIR_ATTEMPTS) =>
                requests' = requests + 1
          /\ requests' \in {requests, requests + 1}]_vars

\* Scenario E
C2_Witness ==
    /\ outcome = "Accepted"
    /\ verdicts = <<FALSE, TRUE>>
    /\ requests = 1
    /\ attempt = 1

\* C3: in every round, after a repair response as after the first generation,
\* the text handed to the Validator is the collaborator's answer passed through
\* the Normalizer and then the Auto-Corrector, in that order.
C3_NormalizedBeforeValidation ==
    [][\A text \in GenTexts :
          (GenerateResponse(text) \/ RepairResponse(text)) =>
              best_code' = auto_correct_code(build_config(text, category)).code]_vars

\* C4: when the loop ends BestEffort the artifact is kept: the run goes on to
\* packaging, the errors of the final verdict are reported, and what is
\* written / stored is built from the last artifact as in the Accepted case.
C4_BestEffortKept ==
    /\ outcome = "BestEffort" =>
          /\ pc \in {"explain_wait", "done", "failed"}
          /\ env_cfg = build_config(best_code, category)
          /\ reported = result.errors /\ reported # <<>>
          /\ result = validate_config(best_code, Registry)
    /\ pc = "done" =>
          /\ LoopEnded
          /\ output = build_config(best_code, category)
    /\ pc # "done" => output = NoFile

C4_Witness ==
    /\ pc = "done" /\ outcome = "BestEffort"
    /\ output # NoFile /\ output # <<>>
    /\ Len(reported) >= 2

(***************************************************************************)
(* Properties of the registry.                                             *)
(***************************************************************************)
\* C11: with an absent reference directory the registry is empty and
\* validate_config produces no unknown-symbol error, whatever mdp names the
\* artifact uses.
C11_EmptyRegistrySkipsWhitelist ==
    (Returned /\ api_dir = "absent") =>
        /\ load_api_whitelist(wl_cache, api_dir).symbols = {}
        /\ CountKind(vresult.errors, "Unknown MDP function") = 0

C11_Witness ==
    /\ Returned /\ api_dir = "absent"
    /\ Parseable(vcode)
    /\ "totally_fake_function" \in MdpNames(vcode)
    /\ vresult.is_valid

\* C12 as claimed: every set load_api_whitelist returns contains the
\* supplemental set, whatever the state of the reference directory.
C12_SupplementalAlways ==
    \A set \in wl_returned : SUPPLEMENTAL_WHITELIST \subseteq set

\* C12: every set load_api_whitelist returns contains the supplemental set
\* when the reference directory exists (with documents or without), and is
\* empty when the directory is absent.
C12_SupplementalWhenDirExists ==
    \A set \in wl_returned :
        /\ api_dir # "absent" => SUPPLEMENTAL_WHITELIST \subseteq set
        /\ api_dir = "empty" => set = SUPPLEMENTAL_WHITELIST
        /\ api_dir = "absent" => set = {}

C12_Witness ==
    /\ api_dir = "empty"
    /\ wl_returned # {}
    /\ \E c \in Callers : calls[c].n = MaxCalls

\* C13: with the reference directory unchanged, all calls of
\* load_api_whitelist in the process return the same set, concurrent first
\* calls included, and once the registry is populated no operation changes it.
C13_RegistryStable ==
    /\ [](/\ Cardinality(wl_returned) <= 1
          /\ wl_cache.loaded => \A set \in wl_returned : set = wl_cache.symbols)
    /\ [][wl_cache.loaded => wl_cache' = wl_cache]_vars

\* a first call is still in its body while another has populated the cache,
\* and a verdict and a hint have been computed from the registry
C13_Witness ==
    /\ wl_cache.loaded
    /\ \E c \in Callers : calls[c].pc = "scanned"
    /\ \E c \in Callers : calls[c].n >= 1
    /\ vpc = "returned" /\ request.hint.given

(***************************************************************************)
(* Properties of the auto-corrector.  An occurrence of "mdp.<name>" is     *)
(* described from the statement's text: the base ends in "mdp" and the     *)
(* attribute is the whole identifier <name>.                               *)
(***************************************************************************)
Wrongs == {COMMON_CORRECTIONS[n][1] : n \in DOMAIN COMMON_CORRECTIONS}
Rights == {COMMON_CORRECTIONS[n][2] : n \in DOMAIN COMMON_CORRECTIONS}
RightOf(w) ==
    COMMON_CORRECTIONS[CHOOSE n \in DOMAIN COMMON_CORRECTIONS :
                           COMMON_CORRECTIONS[n][1] = w][2]

\* the statement reads ...mdp.<a>
IsMdpAccess(s) == s.k = "access" /\ s.b \in {"mdp", "my_mdp"}

\* the text holds mdp.<wrong>, then a boundary, for some table entry
IsHit(s) == IsMdpAccess(s) /\ s.a \in Wrongs

\* identifiers that strictly extend a flagged name, with that name
Extensions ==
    {<<"track_lin_vel_xy_exp", "track_lin_vel_xy">>,
     <<"joint_pos_l2_scaled", "joint_pos_l2">>,
     <<"action_rate_l1_norm", "action_rate_l1">>,
     <<"position_error_tanh", "position_error">>}

\* C14: auto_correct_code applied to its own output returns that text
\* unchanged with no corrections; no replacement name is a flagged name.
C14_CorrectIdempotent ==
    /\ ac_pc = "twice" =>
          /\ ac_again.code = ac_out.code
          /\ ac_again.corrections = <<>>
    /\ ac_pc # "idle" => \A i \in DOMAIN ac_out.code : ~IsHit(ac_out.code[i])

C14_Witness ==
    /\ ac_pc = "twice"
    /\ Len(ac_out.corrections) = 2
    /\ ac_again.code # ac_in

\* C15: mdp.V with V strictly extending a flagged name is not touched by
\* that name's entry, and no correction is recorded for the entry unless the
\* flagged name itself occurs.
C15_WordBoundary ==
    ac_pc # "idle" =>
        /\ \A i \in DOMAIN ac_in :
              (/\ IsMdpAccess(ac_in[i])
               /\ \E e \in Extensions : e[1] = ac_in[i].a
               /\ ac_in[i].a \notin Wrongs)
              => ac_out.code[i] = ac_in[i]
        /\ \A e \in Extensions :
              (\E n \in DOMAIN ac_out.corrections : ac_out.corrections[n][1] = e[2])
              => \E i \in DOMAIN ac_in : IsMdpAccess(ac_in[i]) /\ ac_in[i].a = e[2]
        /\ \A i \in DOMAIN ac_in :
              (IsMdpAccess(ac_in[i]) /\ ac_in[i].a = "position_error_tanh")
              => ac_out.code[i].a = "position_command_error_tanh"

C15_Witness ==
    /\ ac_pc = "once"
    /\ \E i \in DOMAIN ac_in : ac_in[i] = St("access", "track_lin_vel_xy_exp", "mdp")
    /\ \E i \in DOMAIN ac_in : ac_in[i] = St("access", "track_lin_vel_xy", "mdp")
    /\ Len(ac_out.corrections) = 1

\* the text is 'mdp.' + wrong for an entry of the table
IsSingleWrong(code) ==
    Len(code) = 1 /\ code[1].k = "access" /\ code[1].b = "mdp" /\ code[1].a \in Wrongs

MatchedEntries(code) ==
    SelectSeq(COMMON_CORRECTIONS,
              LAMBDA e : \E i \in DOMAIN code : IsMdpAccess(code[i]) /\ code[i].a = e[1])

\* C17: one call replaces every mdp.<wrong> by mdp.<right> and leaves the
\* rest alone, no hit remains, the corrections are one record per matching
\* entry, and they are empty exactly when the text is unchanged.
C17_SinglePassFixesAll ==
    ac_pc # "idle" =>
        /\ Len(ac_out.code) = Len(ac_in)
        /\ \A i \in DOMAIN ac_in :
              ac_out.code[i] = IF IsHit(ac_in[i])
                               THEN [ac_in[i] EXCEPT !.a = RightOf(ac_in[i].a)]
                               ELSE ac_in[i]
        /\ \A i \in DOMAIN ac_out.code : ~IsHit(ac_out.code[i])
        /\ ac_out.corrections = MatchedEntries(ac_in)
        /\ (ac_out.corrections = <<>>) <=> (ac_out.code = ac_in)

C17_Witness ==
    /\ ac_pc = "once"
    /\ ac_in = <<St("access", "joint_pos_l2", "mdp"), St("access", "joint_pos_l2", "mdp")>>
    /\ Len(ac_out.corrections) = 1
    /\ ac_out.code[2].a = "joint_pos_target_l2"

(***************************************************************************)
(* Properties of the normalizer.                                           *)
(***************************************************************************)
\* a task-scoped mdp import: whole-module aliased, parenthesized or
\* single-line selective
IsTaskScopedImport(s) == s.k \in {"import", "from"} /\ s.a = TaskMdp

\* the canonical `import isaaclab.envs.mdp as mdp`
IsCanonicalImport(s) == s.k = "import" /\ s.a = "isaaclab.envs.mdp" /\ s.b = "mdp"

CountStatements(code, P(_)) == Cardinality({i \in DOMAIN code : P(code[i])})

\* C18: for a category that is not a key of CATEGORY_ROBOT_CONFIG the
\* normalizer returns its input unchanged with an empty fix list.
C18_UnknownCategoryNoOp ==
    (pp_pc # "idle" /\ pp_cat \notin DOMAIN CATEGORY_ROBOT_CONFIG) =>
        /\ pp_out.code = pp_in
        /\ pp_out.fixes = <<>>

\* C19: normalizing the normalizer's output again with the same category
\* returns that text unchanged.
C19_NormalizeIdempotent ==
    pp_pc = "twice" => pp_again.code = pp_out.code

\* C20: with at least one task-scoped mdp import and at most one canonical
\* import in the input, the output has no task-scoped mdp import and exactly
\* one canonical import.
C20_CanonicalImportOnce ==
    (/\ pp_pc # "idle"
     /\ CountStatements(pp_in, IsTaskScopedImport) >= 1
     /\ CountStatements(pp_in, IsCanonicalImport) <= 1) =>
        /\ CountStatements(pp_out.code, IsTaskScopedImport) = 0
        /\ CountStatements(pp_out.code, IsCanonicalImport) = 1

(***************************************************************************)
(* Properties of the repair requests.                                      *)
(***************************************************************************)
\* C22: a repair request carries the whitelist hint exactly when one of the
\* errors it is sent for is an unknown-symbol error; the hint then lists
\* every name of the registry, and otherwise it is the empty string.
C22_HintIffUnknownSymbol ==
    /\ requests > 0 =>
          /\ request.hint.given <=>
                CountKind(request.errors, "Unknown MDP function") >= 1
          /\ request.hint.given => request.hint.names = Registry
          /\ ~request.hint.given => request.hint.names = {}
    /\ pc = "repair_wait" =>
          (request.hint.given <=> CountKind(result.errors, "Unknown MDP function") >= 1)

C22_Witness ==
    /\ pc = "repair_wait" /\ requests = 2
    /\ request.hint.given
    /\ "is_alive" \in request.hint.names /\ "feet_air_time" \in request.hint.names
    /\ Len(request.errors) = 1

C22_WitnessNoHint ==
    /\ pc = "repair_wait"
    /\ ~request.hint.given /\ request.errors # <<>>

\* C23: when a generation or repair call fails the run ends there: the
\* failure is the run's result, no repair request follows, no verdict is
\* reported as the run's outcome, nothing is written, and the client is
\* closed.
C23_FailurePropagates ==
    /\ [](pc = "failed" =>
            /\ client_closed
            /\ output = NoFile
            /\ outcome = "none" => reported = <<>>)
    /\ [][/\ pc = "failed" => pc' = "failed"
          /\ (pc \in {"generate_wait", "repair_wait"} /\ pc' = "failed") =>
                /\ outcome' = "none" /\ reported' = <<>>
                /\ requests' = requests /\ verdicts' = verdicts
                /\ output' = NoFile /\ client_closed'
          /\ pc = "failed" =>
                /\ requests' = requests /\ output' = output
                /\ outcome' = outcome /\ reported' = reported]_vars

C23_Witness ==
    /\ pc = "failed" /\ outcome = "none"
    /\ requests = 1 /\ verdicts = <<FALSE>>
    /\ client_closed /\ output = NoFile

\* C24: repair requests are sequential and chained: a request is issued only
\* when every earlier one was answered and the answer auto-corrected and
\* validated, at most one is outstanding, and its payload is the artifact
\* and the error list of the most recent validation.
C24_SequentialChained ==
    /\ [](/\ pc # "failed" =>
                requests = attempt + (IF pc = "repair_wait" THEN 1 ELSE 0)
          /\ pc = "repair_wait" =>
                /\ request.code = best_code
                /\ request.errors = result.errors
                /\ result = validate_config(best_code, Registry)
                /\ Len(verdicts) = requests)
    /\ [][requests' # requests =>
            /\ pc = "loop_head" /\ pc' = "repair_wait"
            /\ requests' = requests + 1
            /\ Len(verdicts) = requests + 1
            /\ request'.code = best_code
            /\ request'.errors = result.errors]_vars

C24_Witness ==
    /\ pc = "repair_wait" /\ requests = 2
    /\ request.code # env_cfg
    /\ request.code = best_code /\ request.errors = result.errors
    /\ Len(request.errors) = 1 /\ request.errors[1].kind = "SyntaxError"

\* C25: the artifact a run delivers is the text its final verdict was computed
\* on: nothing rewrites the artifact after the last validation, so the final
\* verdict is the verdict of the delivered text.
C25_DeliveredIsValidated ==
    pc = "done" =>
        /\ output = best_code
        /\ result = validate_config(output, Registry)

(***************************************************************************)
(* Determinism of the validator.                                           *)
(***************************************************************************)
\* the verdict of the i-th call, read now
VerdictOf(i) ==
    [is_valid |-> vlog[i].is_valid,
     errors   |-> vheap[vlog[i].e],
     warnings |-> vheap[vlog[i].w]]

\* C21: any two calls of validate_config on the same text, whatever was
\* validated in between, end the same way and return verdicts with equal
\* is_valid, equal errors in the same order and equal warnings, each the
\* verdict of that text under the registry; and the verdicts of two calls
\* refer to different list objects.
C21_Deterministic ==
    \A i, j \in DOMAIN vlog :
        /\ vlog[i].code = vlog[j].code =>
              /\ vlog[i].outcome = vlog[j].outcome
              /\ vlog[i].outcome = "returned" => VerdictOf(i) = VerdictOf(j)
        /\ vlog[i].outcome = "returned" =>
              /\ VerdictOf(i) = validate_config(vlog[i].code, Registry)
              /\ vlog[i].e # vlog[i].w
              /\ (i # j /\ vlog[j].outcome = "returned") =>
                    {vlog[i].e, vlog[i].w} \cap {vlog[j].e, vlog[j].w} = {}

C21_Witness ==
    /\ Len(vlog) = 3
    /\ vlog[1].code = vlog[3].code /\ vlog[2].code # vlog[1].code
    /\ \A i \in 1..3 : vlog[i].outcome = "returned"
    /\ Len(VerdictOf(1).errors) >= 2 /\ VerdictOf(1).warnings # <<>>
    /\ VerdictOf(2).errors # <<>>
    /\ VerdictOf(3) = VerdictOf(1)

(***************************************************************************)
(* Totality of the validator.                                              *)
(***************************************************************************)
\* C26: validate_config returns a verdict for every input text and never
\* raises, whatever the values given to keyword arguments named weight.
C26_ValidateTotal == vpc # "raised"

\* a weight that is neither a number nor a negated constant is passed over
C26_OtherFormsReturn ==
    (vpc = "raised") =>
        \E i \in DOMAIN vcode : vcode[i].k = "weight" /\ vcode[i].a = "-'high'"

(***************************************************************************)
(* Properties of the robot steps of the normalizer.                        *)
(***************************************************************************)
IsRobot(s) == s.k = "robot"

\* the input after the import steps 1 and 2
AfterImports(code, cat) ==
    inject_robot_import(
        fix_task_mdp_from(fix_task_mdp_from(
            fix_task_mdp_import([code |-> code, fixes |-> <<>>]), TRUE), FALSE),
        cat)

\* does the assignment hold the canonical name or a .replace( call
KeepsRobot(s, cat) ==
    CATEGORY_ROBOT_CONFIG[cat].cfg_name \in Text(s) \/ ".replace(" \in Text(s)

\* C27: for a known category every robot assignment that holds neither the
\* canonical object name nor a .replace( call becomes the one line
\* `robot: ArticulationCfg = <CFG>.replace(...)`, every other robot
\* assignment and all text around the assignments stay as they are, and the
\* fix is recorded exactly when an assignment was replaced.
C27_RobotReplacementFrame ==
    (pp_pc # "idle" /\ pp_cat \in DOMAIN CATEGORY_ROBOT_CONFIG) =>
        LET before == AfterImports(pp_in, pp_cat).code
            robots == SelectSeq(before, IsRobot)
        IN  /\ Len(pp_out.code) = Len(before)
            /\ \A i \in DOMAIN before :
                  pp_out.code[i] =
                     IF IsRobot(before[i]) /\ ~KeepsRobot(before[i], pp_cat)
                     THEN St("robot", "replace", CATEGORY_ROBOT_CONFIG[pp_cat].cfg_name)
                     ELSE before[i]
            /\ ("Replaced inline robot definition" \in Range(pp_out.fixes)) <=>
                  (\E i \in DOMAIN robots : ~KeepsRobot(robots[i], pp_cat))

\* a robot assignment that refers to the category's canonical object
UsesCanonical(s, cat) ==
    s.k = "robot" /\ CATEGORY_ROBOT_CONFIG[cat].cfg_name \in Text(s)

\* C28: for a known category, an output that refers to the canonical robot
\* object also holds the category's robot import line; in particular when
\* step 3 wrote the reference and the input had no isaaclab import line.
C28_UseImpliesImport ==
    (pp_pc # "idle" /\ pp_cat \in DOMAIN CATEGORY_ROBOT_CONFIG) =>
        ((\E i \in DOMAIN pp_out.code : UsesCanonical(pp_out.code[i], pp_cat)) =>
            (\E i \in DOMAIN pp_out.code :
                pp_out.code[i] = CATEGORY_ROBOT_CONFIG[pp_cat].import_line))

\* the same for the uses the normalizer itself wrote
C28_IntroducedUseImpliesImport ==
    (/\ pp_pc # "idle" /\ pp_cat \in DOMAIN CATEGORY_ROBOT_CONFIG
     /\ ~InCode(CATEGORY_ROBOT_CONFIG[pp_cat].cfg_name, pp_in)
     /\ "Replaced inline robot definition" \in Range(pp_out.fixes)) =>
        (\E i \in DOMAIN pp_out.code :
            pp_out.code[i] = CATEGORY_ROBOT_CONFIG[pp_cat].import_line)

(***************************************************************************)
(* The auto-corrector and the whitelist check on the reserved alias.       *)
(***************************************************************************)
\* C29: auto_correct_code rewrites a name only where it is accessed on the
\* alias mdp itself: an access on another base name that ends in "mdp",
\* which check_api_symbols passes over, is returned unchanged, and every
\* correction recorded is for a name accessed on mdp.
C29_AliasAgreement ==
    ac_pc # "idle" =>
        /\ \A i \in DOMAIN ac_in :
              (ac_in[i].k = "access" /\ ac_in[i].b # "mdp") =>
                  /\ ac_out.code[i] = ac_in[i]
                  /\ check_api_symbols(<<ac_in[i]>>, {}) = <<>>
        /\ \A n \in DOMAIN ac_out.corrections :
              \E i \in DOMAIN ac_in :
                  /\ ac_in[i].k = "access" /\ ac_in[i].b = "mdp"
                  /\ ac_in[i].a = ac_out.corrections[n][1]

(***************************************************************************)
(* Properties of the collaborator's client.                                *)
(***************************************************************************)
\* C30: a call of generate posts to at most two providers, NIM first when
\* its key is set and OpenRouter only when NIM failed or has no key, and
\* returns the first response; it raises "No API key set" only when neither
\* key is set, so a call whose only configured provider failed ends with
\* that provider's failure.
C30_ProviderFallback ==
    \A n \in DOMAIN cl_results :
        LET call == cl_results[n]
        IN  /\ Len(call.tried) <= 2
            /\ nim_key => (call.tried # <<>> /\ call.tried[1] = "nim")
            /\ (\E i \in DOMAIN call.tried : call.tried[i] = "openrouter") =>
                  (or_key /\ call.outcome # "nim_response")
            /\ call.outcome = "nim_response" => call.tried = <<"nim">>
            /\ call.outcome \in {"openrouter_response", "openrouter_error"} =>
                  call.tried[Len(call.tried)] = "openrouter"
            /\ call.outcome = "no_api_key" => (~nim_key /\ ~or_key)
            /\ (call.tried = <<"nim">> /\ call.outcome # "nim_response") =>
                  call.outcome = "nim_error"

====
